---------------------------- MODULE Spec2Model ----------------------------
(***************************************************************************)
(* A model of the token price oracle: the TokenPriceTracker (initialize,   *)
(* change stream, pool resolution, Swap listeners, quote computation), the *)
(* aggregator poller updateTokenPrices with its call counter, the          *)
(* TokenBatchProcessor, and the Token / TokenPrice collections they write. *)
(*                                                                         *)
(* JavaScript Numbers are modelled as exact rationals <<n, d>> (d > 0,     *)
(* lowest terms), with NaN == <<0, 0>> and Infinity == <<1, 0>>.  The      *)
(* power-of-two and power-of-ten scale factors of the price math and the   *)
(* batch sizes are kept as named definitions; where the source value does  *)
(* not fit a model checker's integers the definition says so.              *)
(***************************************************************************)
EXTENDS Integers, Sequences, FiniteSets, TLC

(***************************************************************************)
(* Bounds of the model.                                                    *)
(***************************************************************************)
MaxSessions == 3
MaxTime == 2
MaxSwapJobs == 1
MaxSwaps == 2
MaxRuns == 1
\* The exponents of the fixed-point scale factors: 96, 12 and 36 in the source,
\* which do not fit the model checker's integers.  As in the source, the
\* adjustment 10^AdjustDigits is smaller than the denominator 2^(2*ScaleBits).
ScaleBits == 2
UsdcWethDigits == 2
AdjustDigits == 1
\* The largest scaled square-root price tried as an input of the quote.
MaxSqrtPrice == 8

(***************************************************************************)
(* Addresses.  WETH is the reference asset; T1 and T2 are tracked tokens.  *)
(***************************************************************************)
WETH_ADDRESS == "weth"
Tokens == {"t1", "t2"}
Addrs == Tokens \cup {WETH_ADDRESS}
ZeroAddress == <<"0x0">>
Null == <<>>
NoDoc == [none |-> TRUE]

(***************************************************************************)
(* JavaScript Number arithmetic on rationals.                              *)
(***************************************************************************)
RECURSIVE GCD(_, _)
GCD(a, b) == IF b = 0 THEN a ELSE GCD(b, a % b)

NaN == <<0, 0>>
Infinity == <<1, 0>>
Zero == <<0, 1>>

Num(n, d) ==
    IF d = 0 THEN (IF n = 0 THEN NaN ELSE Infinity)
    ELSE IF n = 0 THEN Zero
    ELSE LET g == GCD(n, d) IN <<n \div g, d \div g>>

IsNaN(x) == x = NaN
IsFinite(x) == x[2] # 0

NumMul(x, y) ==
    IF IsNaN(x) \/ IsNaN(y) THEN NaN
    ELSE IF x = Infinity THEN (IF y = Zero THEN NaN ELSE Infinity)
    ELSE IF y = Infinity THEN (IF x = Zero THEN NaN ELSE Infinity)
    ELSE Num(x[1] * y[1], x[2] * y[2])

\* 1 / x: 1 / 0 is Infinity and 1 / Infinity is 0.
NumInv(x) ==
    IF IsNaN(x) THEN NaN
    ELSE IF x = Infinity THEN Zero
    ELSE Num(x[2], x[1])

\* x > c for an integer c; every comparison with NaN is false.
NumGtInt(x, c) ==
    IF IsNaN(x) THEN FALSE
    ELSE IF x = Infinity THEN TRUE
    ELSE (x[1] \div x[2] > c) \/ (x[1] \div x[2] = c /\ x[1] % x[2] > 0)

\* x < 0; the model's numerators are never negative unless an input is.
NumLtZero(x) == IsFinite(x) /\ x[1] < 0

\* x < y and x <= y; every comparison with NaN is false.
NumLt(x, y) ==
    IF IsNaN(x) \/ IsNaN(y) THEN FALSE
    ELSE IF x = Infinity THEN FALSE
    ELSE IF y = Infinity THEN TRUE
    ELSE x[1] * y[2] < y[1] * x[2]

NumLe(x, y) ==
    IF IsNaN(x) \/ IsNaN(y) THEN FALSE
    ELSE x = y \/ NumLt(x, y)

\* Truthiness of a Number: 0 and NaN are falsy.
Truthy(x) == x # Zero /\ x # NaN


(***************************************************************************)
(* State.                                                                  *)
(*   Token collection: tokenDocs (NoDoc where no document exists) and its  *)
(*   natural (insertion) order; now is the wall clock read by new Date().  *)
(*   Chain: factory[a][i] is getPool(a, WETH, FEE_TIERS[i]), anchorFactory *)
(*   the same for the WETH/USDC pair, anchorSqrt the anchor pool's slot0.  *)
(*   Tracker: the position of initialize(), the number of initialize()     *)
(*   runs begun (session), this.wsProvider (0 is null), the live change    *)
(*   streams (each tagged with the session that opened it), pending        *)
(*   setupChangeStream retry timers, undelivered insert notifications,     *)
(*   this.tokens, the trackTokenPrices loops in flight, the registered     *)
(*   Swap listeners per token, the anchor Swap listeners, this.wethPriceUsd*)
(*   Pools: sqrtPrice[a] is slot0 of a's pool, token0IsWeth[a] says which  *)
(*   side the reference asset is, chainSupply[a] is totalSupply().         *)
(*   Handlers in flight: swapJobs (Swap handlers of subscribeToPool), batch*)
(*   (one processTokensInBatches run).  priceAsOf[a] records the time at   *)
(*   which the data behind the stored price_usd of a was read or fetched,  *)
(*   started counts the Swap handlers and batch runs begun so far.         *)
(*   Poller: the TokenPrice collection (tokenPrices, natural order         *)
(*   priceOrder), apiCallsThisMinute, the updateTokenPrices runs in flight *)
(*   (cycles), the cron and setInterval timers that are due, the periods   *)
(*   left until the setInterval timer is due again (resetIn), and callLog,  *)
(*   the number of aggregator calls issued in each cron period.            *)
(***************************************************************************)
VARIABLES tokenDocs, insertOrder, now,
          factory, anchorFactory, anchorSqrt, sqrtPrice, token0IsWeth, chainSupply,
          initPc, session, wsProvider, changeStreams, streamRetry, events,
          tokens, trackQueue, swapListeners, anchorListeners, wethPriceUsd,
          resolver, wsDropped,
          swapJobs, batch, priceAsOf, started,
          tokenPrices, priceOrder, apiCallsThisMinute, cycles, cronDue, resetDue, resetIn,
          callLog

storeVars == <<tokenDocs, insertOrder, now>>
chainVars == <<factory, anchorFactory, anchorSqrt, sqrtPrice, token0IsWeth, chainSupply>>
trackerVars == <<initPc, session, wsProvider, changeStreams, streamRetry, events,
                 tokens, trackQueue, swapListeners, anchorListeners, wethPriceUsd,
                 resolver, wsDropped>>
jobVars == <<swapJobs, batch, priceAsOf, started>>
pollVars == <<tokenPrices, priceOrder, apiCallsThisMinute, cycles, cronDue, resetDue, resetIn,
              callLog>>
vars == <<storeVars, chainVars, trackerVars, jobVars, pollVars>>

(***************************************************************************)
(* models/Token.js: a new document's defaults, and the pre-save hook.      *)
(* The valuation price * total_supply / 10^decimals is kept as the         *)
(* mantissa m = price * total_supply and the exponent e = decimals,        *)
(* because 10^18 does not fit the model checker's integers.                *)
(***************************************************************************)
DefaultDecimals == 18

MarketCap(price, supply, decimals) ==
    LET m == NumMul(price, Num(supply, 1))
    IN  [m |-> m, e |-> IF m = Zero \/ m = NaN THEN 0 ELSE decimals]

NewTokenDoc(t) ==
    [price_usd |-> Zero, total_supply |-> 0, market_cap_usd |-> MarketCap(Zero, 0, 0),
     volume_usd_24h |-> Zero, decimals |-> DefaultDecimals, pool_address |-> Null,
     last_updated |-> t, last_trade |-> 0]

(***************************************************************************)
(* Pool Resolver: findTokenPool / findWethUsdcPool probe the fee tiers in  *)
(* order and return the first address that is not the zero address.        *)
(***************************************************************************)
FEE_TIERS == <<500, 3000, 10000>>

PoolAddr(a, i) == <<"pool", a, FEE_TIERS[i]>>

\* if (poolAddress && poolAddress !== ethers.ZeroAddress)
ProbeMatchesAny(poolAddress) == poolAddress # Null

ProbeMatches(poolAddress) == poolAddress # Null /\ poolAddress # ZeroAddress

RECURSIVE ProbeFrom(_, _)
ProbeFrom(lookup, i) ==
    IF i > Len(FEE_TIERS) THEN Null
    ELSE IF ProbeMatches(lookup[i]) THEN lookup[i]
    ELSE ProbeFrom(lookup, i + 1)

\* getPool needs a live provider: with this.wsProvider null or its socket
\* closed, or on an RPC error (rpcOk false), the call throws and the catch
\* returns null.
ProviderDown == wsProvider = 0 \/ wsProvider \in wsDropped

FindTokenPoolUnchecked(a, rpcOk) == ProbeFrom(factory[a], 1)

FindTokenPool(a, rpcOk) ==
    IF ProviderDown \/ ~rpcOk THEN Null ELSE ProbeFrom(factory[a], 1)

FindWethUsdcPool(rpcOk) ==
    IF ProviderDown \/ ~rpcOk THEN Null ELSE ProbeFrom(anchorFactory, 1)

\* The same two functions, one action per awaited getPool call.  pair is the
\* token paired with WETH, or USDC_ADDRESS for findWethUsdcPool; probes are
\* the fee tiers asked so far.
USDC_ADDRESS == "usdc"

IdleResolver ==
    [pc |-> "idle", pair |-> "none", i |-> 1, probes |-> <<>>, result |-> Null, threw |-> FALSE]

FactoryLookup(pair) == IF pair = USDC_ADDRESS THEN anchorFactory ELSE factory[pair]

ResolverCall(pair) ==
    /\ resolver.pc = "idle"
    /\ resolver' = [IdleResolver EXCEPT !.pc = "probing", !.pair = pair]
    /\ UNCHANGED <<storeVars, chainVars, pollVars, jobVars, initPc, session, wsProvider,
                   changeStreams, streamRetry, events, tokens, trackQueue, swapListeners,
                   anchorListeners, wethPriceUsd, wsDropped>>

ResolverProbe(rpcOk) ==
    /\ resolver.pc = "probing"
    /\ LET fee == FEE_TIERS[resolver.i]
           poolAddress == FactoryLookup(resolver.pair)[resolver.i]
           asked == [resolver EXCEPT !.probes = Append(@, fee)]
       IN  resolver' =
             IF ProviderDown \/ ~rpcOk
             THEN [asked EXCEPT !.pc = "returned", !.threw = TRUE]
             ELSE IF ProbeMatches(poolAddress)
             THEN [asked EXCEPT !.pc = "returned", !.result = poolAddress]
             ELSE IF resolver.i = Len(FEE_TIERS)
             THEN [asked EXCEPT !.pc = "returned"]
             ELSE [asked EXCEPT !.i = @ + 1]
    /\ UNCHANGED <<storeVars, chainVars, pollVars, jobVars, initPc, session, wsProvider,
                   changeStreams, streamRetry, events, tokens, trackQueue, swapListeners,
                   anchorListeners, wethPriceUsd, wsDropped>>

ResolverReturn ==
    /\ resolver.pc = "returned"
    /\ resolver' = IdleResolver
    /\ UNCHANGED <<storeVars, chainVars, pollVars, jobVars, initPc, session, wsProvider,
                   changeStreams, streamRetry, events, tokens, trackQueue, swapListeners,
                   anchorListeners, wethPriceUsd, wsDropped>>

(***************************************************************************)
(* Anchor price: calculateWethPrice and calculateWethPriceFromSwap.  The   *)
(* BigInt quotient is an integer; 0 is returned for an invalid price.      *)
(***************************************************************************)
Q96 == 2 ^ ScaleBits
PriceCeiling == 1000000

CalculateWethPrice(sqrtPriceX96) ==
    LET price == (sqrtPriceX96 * sqrtPriceX96 * (10 ^ UsdcWethDigits)) \div (Q96 * Q96)
    IN  IF price <= 0 \/ price > PriceCeiling THEN Zero ELSE Num(price, 1)

CalculateWethPriceFromSwapUnchecked(sqrtPriceX96) ==
    LET price == (sqrtPriceX96 * sqrtPriceX96 * (10 ^ UsdcWethDigits)) \div (Q96 * Q96)
    IN  Num(price, 1)

CalculateWethPriceFromSwap(sqrtPriceX96) ==
    LET price == (sqrtPriceX96 * sqrtPriceX96 * (10 ^ UsdcWethDigits)) \div (Q96 * Q96)
    IN  IF price <= 0 \/ price > PriceCeiling THEN Zero ELSE Num(price, 1)

\* Token.findOneAndUpdate({contractAddress: a}, {$set: fields}): no upsert,
\* no save hook.
FindOneAndUpdatePrice(docs, a, price, t) ==
    IF docs[a] = NoDoc THEN docs
    ELSE [docs EXCEPT ![a].price_usd = price, ![a].last_updated = t]

(***************************************************************************)
(* subscribeToPool(poolAddress, token): a new Contract on the current      *)
(* provider and one more 'Swap' listener on it.                            *)
(***************************************************************************)
SubscribeToPool(poolAddress, a) ==
    [swapListeners EXCEPT ![a] = Append(@, [pool |-> poolAddress, provider |-> wsProvider])]

(***************************************************************************)
(* TokenPriceTracker.initialize(), one action per awaited step.  A failed  *)
(* step throws into the catch, which calls reconnect().                    *)
(***************************************************************************)
\* initializeDataFetching(), and subscribeToToken() through it: with no
\* trackerInstance the tracker is constructed and initialize() is called, up
\* to its first await; with an instance the call changes nothing.
InitializeDataFetchingUnguarded ==
    /\ session < MaxSessions
    /\ session' = session + 1
    /\ initPc' = "connect"
    /\ UNCHANGED <<pollVars, jobVars, resolver, wsDropped, storeVars, chainVars, wsProvider, changeStreams, streamRetry, events,
                   tokens, trackQueue, swapListeners, anchorListeners, wethPriceUsd>>

InitializeDataFetching ==
    /\ initPc = "notStarted"
    /\ session' = 1
    /\ initPc' = "connect"
    /\ UNCHANGED <<pollVars, jobVars, resolver, wsDropped, storeVars, chainVars, wsProvider, changeStreams, streamRetry, events,
                   tokens, trackQueue, swapListeners, anchorListeners, wethPriceUsd>>

MongooseConnect(ok) ==
    /\ initPc = "connect"
    /\ initPc' = IF ok THEN "stream" ELSE "reconnectWait"
    /\ UNCHANGED <<pollVars, jobVars, resolver, wsDropped, storeVars, chainVars, session, wsProvider, changeStreams, streamRetry,
                   events, tokens, trackQueue, swapListeners, anchorListeners, wethPriceUsd>>

\* setupChangeStream(): Token.watch and a 'change' handler; on an error a
\* retry timer, and initialize() goes on either way.
SetupChangeStream(ok) ==
    /\ initPc = "stream"
    /\ initPc' = "load"
    /\ IF ok
       THEN changeStreams' = Append(changeStreams, session) /\ UNCHANGED streamRetry
       ELSE streamRetry' = streamRetry + 1 /\ UNCHANGED changeStreams
    /\ UNCHANGED <<pollVars, jobVars, resolver, wsDropped, storeVars, chainVars, session, wsProvider, events, tokens, trackQueue,
                   swapListeners, anchorListeners, wethPriceUsd>>

\* The retry timer of setupChangeStream fires and the watch succeeds (a
\* failed retry re-arms the timer and changes nothing).
RetryChangeStream ==
    /\ streamRetry > 0
    /\ streamRetry' = streamRetry - 1
    /\ changeStreams' = Append(changeStreams, session)
    /\ UNCHANGED <<pollVars, jobVars, resolver, wsDropped, storeVars, chainVars, initPc, session, wsProvider, events, tokens,
                   trackQueue, swapListeners, anchorListeners, wethPriceUsd>>

LoadTokens(ok) ==
    /\ initPc = "load"
    /\ IF ok
       THEN tokens' = insertOrder /\ initPc' = "ws"
       ELSE UNCHANGED tokens /\ initPc' = "reconnectWait"
    /\ UNCHANGED <<pollVars, jobVars, resolver, wsDropped, storeVars, chainVars, session, wsProvider, changeStreams, streamRetry,
                   events, trackQueue, swapListeners, anchorListeners, wethPriceUsd>>

ConnectWebSocket(ok) ==
    /\ initPc = "ws"
    /\ IF ok
       THEN wsProvider' = session /\ initPc' = "seed"
       ELSE UNCHANGED wsProvider /\ initPc' = "reconnectWait"
    /\ UNCHANGED <<pollVars, jobVars, resolver, wsDropped, storeVars, chainVars, session, changeStreams, streamRetry, events,
                   tokens, trackQueue, swapListeners, anchorListeners, wethPriceUsd>>

\* retrieveInitialWethPrice(): never throws; seeds the anchor only from a
\* price > 0.
RetrieveInitialWethPrice(rpcOk) ==
    /\ initPc = "seed"
    /\ initPc' = "anchor"
    /\ LET price == CalculateWethPrice(anchorSqrt)
       IN  IF FindWethUsdcPool(rpcOk) # Null /\ price # Zero
           THEN /\ wethPriceUsd' = price
                /\ tokenDocs' = FindOneAndUpdatePrice(tokenDocs, WETH_ADDRESS, price, now)
           ELSE UNCHANGED <<wethPriceUsd, tokenDocs>>
    /\ UNCHANGED <<pollVars, jobVars, resolver, wsDropped, insertOrder, now, chainVars, session, wsProvider, changeStreams,
                   streamRetry, events, tokens, trackQueue, swapListeners, anchorListeners>>

\* trackWethPrice(): one 'Swap' listener on the anchor pool, if it is found.
TrackWethPrice(rpcOk) ==
    /\ initPc = "anchor"
    /\ initPc' = "track"
    /\ LET poolAddress == FindWethUsdcPool(rpcOk)
       IN  IF poolAddress # Null
           THEN anchorListeners' =
                    Append(anchorListeners, [pool |-> poolAddress, provider |-> wsProvider])
           ELSE UNCHANGED anchorListeners
    /\ UNCHANGED <<pollVars, jobVars, resolver, wsDropped, storeVars, chainVars, session, wsProvider, changeStreams, streamRetry,
                   events, tokens, trackQueue, swapListeners, wethPriceUsd>>

\* this.trackTokenPrices() is not awaited: the loop over this.tokens starts
\* and initialize() returns.
TrackTokenPrices ==
    /\ initPc = "track"
    /\ initPc' = "done"
    /\ trackQueue' = [trackQueue EXCEPT ![session] = tokens]
    /\ UNCHANGED <<pollVars, jobVars, resolver, wsDropped, storeVars, chainVars, session, wsProvider, changeStreams, streamRetry,
                   events, tokens, swapListeners, anchorListeners, wethPriceUsd>>

\* One iteration of the trackTokenPrices loop.
TrackStep(s, rpcOk) ==
    /\ trackQueue[s] # <<>>
    /\ LET a == Head(trackQueue[s])
           pool == FindTokenPool(a, rpcOk)
       IN  IF pool # Null
           THEN swapListeners' = SubscribeToPool(pool, a)
           ELSE UNCHANGED swapListeners
    /\ trackQueue' = [trackQueue EXCEPT ![s] = Tail(@)]
    /\ UNCHANGED <<pollVars, jobVars, resolver, wsDropped, storeVars, chainVars, initPc, session, wsProvider, changeStreams,
                   streamRetry, events, tokens, anchorListeners, wethPriceUsd>>

\* reconnect(): after the delay, initialize() runs again.  Nothing is closed,
\* removed or reset.
Reconnect ==
    /\ initPc = "reconnectWait"
    /\ session < MaxSessions
    /\ session' = session + 1
    /\ initPc' = "connect"
    /\ UNCHANGED <<pollVars, jobVars, resolver, wsDropped, storeVars, chainVars, wsProvider, changeStreams, streamRetry, events,
                   tokens, trackQueue, swapListeners, anchorListeners, wethPriceUsd>>

(***************************************************************************)
(* The onboarding process inserts a Token document; every live change      *)
(* stream gets the insert notification.                                    *)
(***************************************************************************)
InsertToken(a) ==
    /\ tokenDocs[a] = NoDoc
    /\ tokenDocs' = [tokenDocs EXCEPT ![a] = NewTokenDoc(now)]
    /\ insertOrder' = Append(insertOrder, a)
    /\ events' = events \cup {<<i, a>> : i \in 1..Len(changeStreams)}
    /\ UNCHANGED <<pollVars, jobVars, resolver, wsDropped, now, chainVars, initPc, session, wsProvider, changeStreams, streamRetry,
                   tokens, trackQueue, swapListeners, anchorListeners, wethPriceUsd>>

\* The 'change' handler of stream i for an insert of a.
OnChangeInsert(i, a, rpcOk) ==
    /\ <<i, a>> \in events
    /\ events' = events \ {<<i, a>>}
    /\ LET pool == FindTokenPool(a, rpcOk)
       IN  IF pool # Null
           THEN swapListeners' = SubscribeToPool(pool, a)
           ELSE UNCHANGED swapListeners
    /\ UNCHANGED <<pollVars, jobVars, resolver, wsDropped, storeVars, chainVars, initPc, session, wsProvider, changeStreams,
                   streamRetry, tokens, trackQueue, anchorListeners, wethPriceUsd>>

(***************************************************************************)
(* A Swap on the anchor pool: the listeners of trackWethPrice run.         *)
(***************************************************************************)
SqrtChoices == {0, Q96, 101 * Q96}

AnchorSwap(sqrtPriceX96) ==
    /\ anchorListeners # <<>>
    /\ anchorSqrt' = sqrtPriceX96
    /\ LET price == CalculateWethPriceFromSwap(sqrtPriceX96)
       IN  IF price # Zero
           THEN /\ wethPriceUsd' = price
                /\ tokenDocs' = FindOneAndUpdatePrice(tokenDocs, WETH_ADDRESS, price, now)
           ELSE UNCHANGED <<wethPriceUsd, tokenDocs>>
    /\ UNCHANGED <<pollVars, jobVars, resolver, wsDropped, insertOrder, now, factory, anchorFactory, sqrtPrice, token0IsWeth,
                   chainSupply, initPc, session, wsProvider,
                   changeStreams, streamRetry, events, tokens, trackQueue, swapListeners,
                   anchorListeners>>

(***************************************************************************)
(* Token quote: calculateTokenPriceInUsd, lines 378-401.  Number(x) of a   *)
(* BigInt is taken as exact.                                               *)
(***************************************************************************)
\* ToNumber of the anchor in a product: null converts to 0.
ToNumber(w) == IF w = Null THEN Zero ELSE w

\* if (!this.wethPriceUsd) return 0: null (and 0, NaN) defers the computation.
AnchorAvailableAlways(w) == TRUE

AnchorAvailable(w) == w # Null /\ Truthy(w)

RawPriceUnscaled(sqrtPriceX96) ==
    LET squared == sqrtPriceX96 * sqrtPriceX96
        denominator == Q96 * Q96
        adjustment == 10 ^ AdjustDigits
        adjustedPrice == (squared * adjustment) \div denominator
    IN  Num(adjustedPrice, 1)

RawPrice(sqrtPriceX96) ==
    LET squared == sqrtPriceX96 * sqrtPriceX96
        denominator == Q96 * Q96
        adjustment == 10 ^ AdjustDigits
        adjustedPrice == (squared * adjustment) \div denominator
    IN  Num(adjustedPrice, adjustment)

PriceInWethOneWay(sqrtPriceX96, isToken0Weth) == RawPrice(sqrtPriceX96)

PriceInWeth(sqrtPriceX96, isToken0Weth) ==
    IF isToken0Weth THEN NumInv(RawPrice(sqrtPriceX96)) ELSE RawPrice(sqrtPriceX96)

PriceUsd(sqrtPriceX96, isToken0Weth, w) ==
    NumMul(PriceInWeth(sqrtPriceX96, isToken0Weth), ToNumber(w))

\* The sanity check of line 398 rejects NaN, a negative and a quote above
\* the ceiling.
PriceRejected(priceUsd) ==
    IsNaN(priceUsd) \/ NumLtZero(priceUsd) \/ NumGtInt(priceUsd, PriceCeiling)

(***************************************************************************)
(* Mongoose document.save(): the pre-save hook recomputes market_cap_usd   *)
(* and only the paths whose value differs from the loaded one are written. *)
(***************************************************************************)
PreSave(doc) ==
    [doc EXCEPT !.market_cap_usd = MarketCap(doc.price_usd, doc.total_supply, doc.decimals)]

SaveDocWhole(docs, a, loaded, edited) ==
    IF docs[a] = NoDoc THEN docs
    ELSE [docs EXCEPT ![a] = PreSave(edited)]

SaveDoc(docs, a, loaded, edited) ==
    IF docs[a] = NoDoc THEN docs
    ELSE [docs EXCEPT ![a] =
            [f \in DOMAIN loaded |->
                IF PreSave(edited)[f] # loaded[f] THEN PreSave(edited)[f] ELSE docs[a][f]]]

(***************************************************************************)
(* The Swap handler registered by subscribeToPool, one action per awaited  *)
(* step.  A job slot holds one running handler; outcome is how the last    *)
(* handler of the slot ended.                                              *)
(***************************************************************************)
IdleJob(outcome) ==
    [pc |-> "idle", token |-> "none", priceUsd |-> Zero, asOf |-> 0, supply |-> 0,
     doc |-> NoDoc, stamp |-> 0, outcome |-> outcome]

\* A Swap on a's pool moves its price and is delivered to a listener of a:
\* the handler starts and calculateTokenPriceInUsd checks the anchor first.
SwapEvent(j, a, sqrtPriceX96) ==
    /\ swapListeners[a] # <<>>
    /\ swapJobs[j].pc = "idle"
    /\ started.swaps < MaxSwaps
    /\ started' = [started EXCEPT !.swaps = @ + 1]
    /\ sqrtPrice' = [sqrtPrice EXCEPT ![a] = sqrtPriceX96]
    /\ swapJobs' = [swapJobs EXCEPT ![j] =
            IF AnchorAvailable(wethPriceUsd)
            THEN [IdleJob(swapJobs[j].outcome) EXCEPT !.pc = "readPool", !.token = a]
            ELSE IdleJob("deferred")]
    /\ UNCHANGED <<storeVars, factory, anchorFactory, anchorSqrt, token0IsWeth, chainSupply,
                   trackerVars, pollVars, batch, priceAsOf>>

\* token0(), token1(), slot0() resolve; the quote is computed and checked.
ReadPool(j, rpcOk) ==
    /\ swapJobs[j].pc = "readPool"
    /\ LET a == swapJobs[j].token
           priceUsd == PriceUsd(sqrtPrice[a], token0IsWeth[a], wethPriceUsd)
       IN  swapJobs' = [swapJobs EXCEPT ![j] =
                IF ~rpcOk THEN IdleJob("error")
                ELSE IF PriceRejected(priceUsd) THEN IdleJob("invalid")
                ELSE [@ EXCEPT !.pc = "readSupply", !.priceUsd = priceUsd, !.asOf = now]]
    /\ UNCHANGED <<storeVars, chainVars, trackerVars, pollVars, batch, priceAsOf, started>>

\* totalSupply() resolves, or throws into the catch, which returns 0.
ReadSupplyUncaught(j, rpcOk) ==
    /\ swapJobs[j].pc = "readSupply"
    /\ swapJobs' = [swapJobs EXCEPT ![j] =
            IF ~rpcOk THEN [@ EXCEPT !.pc = "crashed"]
            ELSE [@ EXCEPT !.pc = "findOne", !.supply = chainSupply[swapJobs[j].token]]]
    /\ UNCHANGED <<storeVars, chainVars, trackerVars, pollVars, batch, priceAsOf, started>>

ReadSupply(j, rpcOk) ==
    /\ swapJobs[j].pc = "readSupply"
    /\ swapJobs' = [swapJobs EXCEPT ![j] =
            IF ~rpcOk THEN IdleJob("error")
            ELSE [@ EXCEPT !.pc = "findOne", !.supply = chainSupply[swapJobs[j].token]]]
    /\ UNCHANGED <<storeVars, chainVars, trackerVars, pollVars, batch, priceAsOf, started>>

\* Token.findOne resolves; the fields are assigned, last_updated = new Date(),
\* and getBlockNumber() is awaited.  Without a document the quote is returned.
FindOneToken(j, dbOk) ==
    /\ swapJobs[j].pc = "findOne"
    /\ LET a == swapJobs[j].token
       IN  swapJobs' = [swapJobs EXCEPT ![j] =
                IF ~dbOk THEN IdleJob("error")
                ELSE IF tokenDocs[a] = NoDoc
                THEN (IF NumGtInt(@.priceUsd, 0) THEN [@ EXCEPT !.pc = "update"]
                      ELSE IdleJob("none"))
                ELSE [@ EXCEPT !.pc = "blockNumber", !.doc = tokenDocs[a], !.stamp = now]]
    /\ UNCHANGED <<storeVars, chainVars, trackerVars, pollVars, batch, priceAsOf, started>>

\* getBlockNumber() resolves and updatedToken.save() writes; the quote is
\* returned and the handler goes on to its own update if price > 0.
SaveToken(j, rpcOk) ==
    /\ swapJobs[j].pc = "blockNumber"
    /\ LET job == swapJobs[j]
           a == job.token
           edited == [job.doc EXCEPT !.price_usd = job.priceUsd,
                                     !.total_supply = job.supply,
                                     !.last_updated = job.stamp]
       IN  IF ~rpcOk
           THEN /\ swapJobs' = [swapJobs EXCEPT ![j] = IdleJob("error")]
                /\ UNCHANGED <<tokenDocs, priceAsOf>>
           ELSE /\ tokenDocs' = SaveDoc(tokenDocs, a, job.doc, edited)
                /\ priceAsOf' = IF edited.price_usd # job.doc.price_usd
                                THEN [priceAsOf EXCEPT ![a] = job.asOf]
                                ELSE priceAsOf
                /\ swapJobs' = [swapJobs EXCEPT ![j] =
                        IF NumGtInt(job.priceUsd, 0)
                        THEN [@ EXCEPT !.pc = "update"]
                        ELSE IdleJob("written")]
    /\ UNCHANGED <<insertOrder, now, chainVars, trackerVars, pollVars, batch, started>>

\* if (price > 0) Token.findOneAndUpdate($set price_usd, last_updated,
\* last_trade): a second write, without the save hook.
HandlerUpdate(j) ==
    /\ swapJobs[j].pc = "update"
    /\ LET job == swapJobs[j]
           a == job.token
       IN  /\ tokenDocs' = IF tokenDocs[a] = NoDoc THEN tokenDocs
                           ELSE [tokenDocs EXCEPT ![a].price_usd = job.priceUsd,
                                                  ![a].last_updated = now,
                                                  ![a].last_trade = now]
           /\ priceAsOf' = IF tokenDocs[a] = NoDoc THEN priceAsOf
                           ELSE [priceAsOf EXCEPT ![a] = job.asOf]
    /\ swapJobs' = [swapJobs EXCEPT ![j] = IdleJob("written")]
    /\ UNCHANGED <<insertOrder, now, chainVars, trackerVars, pollVars, batch, started>>

\* The wall clock advances.
Tick ==
    /\ now < MaxTime
    /\ now' = now + 1
    /\ UNCHANGED <<tokenDocs, insertOrder, chainVars, trackerVars, pollVars, jobVars>>

(***************************************************************************)
(* Token.find({}).sort({last_updated: 1}).limit(n): ascending last_updated,*)
(* ties in natural order.                                                  *)
(***************************************************************************)
InsertByKey(sorted, a, key) ==
    LET idx == Cardinality({i \in 1..Len(sorted) : key[sorted[i]] <= key[a]})
    IN  SubSeq(sorted, 1, idx) \o <<a>> \o SubSeq(sorted, idx + 1, Len(sorted))

RECURSIVE SortByKey(_, _)
SortByKey(seq, key) ==
    IF seq = <<>> THEN <<>>
    ELSE InsertByKey(SortByKey(SubSeq(seq, 1, Len(seq) - 1), key), seq[Len(seq)], key)

Limit(seq, n) == SubSeq(seq, 1, IF n < Len(seq) THEN n ELSE Len(seq))

(***************************************************************************)
(* TokenBatchProcessor (services/tokenBatchService.js).  batchSize is 30   *)
(* and the find limit 300 in the source; the model's collections hold at   *)
(* few documents, so both are scaled to keep several batches.              *)
(***************************************************************************)
batchSize == 1
TokenFindLimit == 2

FindStalestTokens ==
    LET key == [a \in Addrs |-> IF tokenDocs[a] = NoDoc THEN 0 ELSE tokenDocs[a].last_updated]
    IN  Limit(SortByKey(insertOrder, key), TokenFindLimit)

\* What fetchGeckoTerminalData holds for one address: nothing, a full entry,
\* or an entry whose price and volume attributes are null.
Absent == [absent |-> TRUE]
GeckoFull ==
    [price_usd |-> Num(2, 1), volume_usd_24h |-> Num(7, 1), decimals |-> 6,
     pool_address |-> <<"top_pool">>]
GeckoNull ==
    [price_usd |-> Zero, volume_usd_24h |-> Zero, decimals |-> DefaultDecimals,
     pool_address |-> Null]
GeckoChoices == {Absent, GeckoFull, GeckoNull}

\* x || y for Numbers.
OrNum(x, y) == IF Truthy(x) THEN x ELSE y

\* The field assignments of processBatch, lines 147-163, on the loaded
\* document; a failed totalSupply() falls back to token.total_supply || 0.
BatchEdits(doc, tokenData, supplyOk, totalSupply, t) ==
    LET has == tokenData # Absent
    IN  [doc EXCEPT
            !.total_supply = IF supplyOk THEN totalSupply ELSE doc.total_supply,
            !.price_usd = IF has THEN OrNum(tokenData.price_usd, OrNum(doc.price_usd, Zero))
                          ELSE OrNum(doc.price_usd, Zero),
            !.volume_usd_24h =
                IF has THEN OrNum(tokenData.volume_usd_24h, OrNum(doc.volume_usd_24h, Zero))
                ELSE OrNum(doc.volume_usd_24h, Zero),
            !.decimals = IF has /\ tokenData.decimals # 0 THEN tokenData.decimals
                         ELSE IF doc.decimals # 0 THEN doc.decimals ELSE DefaultDecimals,
            !.pool_address = IF has /\ tokenData.pool_address # Null
                             THEN tokenData.pool_address ELSE doc.pool_address,
            !.last_updated = t]

IdleBatch == [pc |-> "idle", docs |-> <<>>, i |-> 1, k |-> 1, data |-> <<>>, fetchedAt |-> 0]

BatchEnd(b) == IF b.i + batchSize - 1 < Len(b.docs) THEN b.i + batchSize - 1 ELSE Len(b.docs)

\* processTokensInBatches(): the sorted find; nothing to do without tokens,
\* and a rejected find is caught.
ProcessTokensInBatches(dbOk) ==
    /\ batch.pc = "idle"
    /\ started.runs < MaxRuns
    /\ started' = [started EXCEPT !.runs = @ + 1]
    /\ LET found == FindStalestTokens
       IN  batch' = IF ~dbOk \/ found = <<>> THEN IdleBatch
                    ELSE [IdleBatch EXCEPT
                            !.pc = "fetch",
                            !.docs = [n \in 1..Len(found) |->
                                        [addr |-> found[n], doc |-> tokenDocs[found[n]]]]]
    /\ UNCHANGED <<storeVars, chainVars, trackerVars, pollVars, swapJobs, priceAsOf>>

\* processBatch(): the aggregator's answer for the batch arrives (an HTTP
\* error is the answer with every address absent).
FetchGeckoTerminalData(resp) ==
    /\ batch.pc = "fetch"
    /\ DOMAIN resp = batch.i..BatchEnd(batch)
    /\ batch' = [batch EXCEPT !.pc = "token", !.k = batch.i, !.data = resp,
                              !.fetchedAt = now]
    /\ UNCHANGED <<storeVars, chainVars, trackerVars, pollVars, swapJobs, priceAsOf, started>>

\* One token of the batch: totalSupply() (or its timeout), the assignments,
\* save().  A failed save is caught and the loop goes on.
ProcessBatchToken(supplyOk, saveOk) ==
    /\ batch.pc = "token"
    /\ LET a == batch.docs[batch.k].addr
           loaded == batch.docs[batch.k].doc
           edited == BatchEdits(loaded, batch.data[batch.k], supplyOk, chainSupply[a], now)
           last == batch.k = BatchEnd(batch)
       IN  /\ IF saveOk
              THEN /\ tokenDocs' = SaveDoc(tokenDocs, a, loaded, edited)
                   /\ priceAsOf' = IF a \in Tokens /\ edited.price_usd # loaded.price_usd
                                   THEN [priceAsOf EXCEPT ![a] = batch.fetchedAt]
                                   ELSE priceAsOf
              ELSE UNCHANGED <<tokenDocs, priceAsOf>>
           /\ batch' = IF ~last THEN [batch EXCEPT !.k = @ + 1]
                       ELSE IF batch.k < Len(batch.docs) THEN [batch EXCEPT !.pc = "wait"]
                       ELSE IdleBatch
    /\ UNCHANGED <<insertOrder, now, chainVars, trackerVars, pollVars, swapJobs, started>>

\* The processingInterval delay between two batches is over.
NextBatch ==
    /\ batch.pc = "wait"
    /\ batch' = [batch EXCEPT !.pc = "fetch", !.i = @ + batchSize]
    /\ UNCHANGED <<storeVars, chainVars, trackerVars, pollVars, swapJobs, priceAsOf, started>>

(***************************************************************************)
(* The aggregator poller (tokenDataService, part_003 lines 491-699).  Time *)
(* is counted in cron periods (2 s); a minute is MinuteTicks periods.  The *)
(* source's 30 calls per minute, 30 addresses per call and 300 oldest      *)
(* records are scaled to the size of the model's collections.              *)
(***************************************************************************)
MaxCycles == 2
MaxPollTime == 2
MinuteTicks == 2
RateLimit == 3
BATCH_SIZE == 2
PriceFindLimit == 2

IdleCycle ==
    [pc |-> "idle", start |-> 0, all |-> <<>>, list |-> <<>>, i |-> 1, ops |-> <<>>,
     outcome |-> "none"]

\* What the aggregator returns for one address: no entry, an entry with its
\* attributes, an entry whose attributes are null (parseFloat(null || 0)), or
\* an entry without attributes or with an id that has no '_' part, on which
\* the forEach callback of lines 539-553 throws.
Malformed == [malformed |-> TRUE]
PollFull == [price_usd |-> Num(2, 1), fdv_usd |-> Num(9, 1), volume_usd |-> Num(7, 1)]
PollNull == [price_usd |-> Zero, fdv_usd |-> Zero, volume_usd |-> Zero]
PollChoices == {Absent, PollFull, PollNull, Malformed}

\* apiCallsThisMinute >= 29, the check of lines 571 and 614.
RateLimitReached == apiCallsThisMinute >= RateLimit - 1

\* TokenPrice.find({}).sort({last_updated: 1}).limit(300).
OldestUpdatedTokens ==
    LET key == [a \in Addrs |-> IF tokenPrices[a] = NoDoc THEN 0 ELSE tokenPrices[a].last_updated]
    IN  Limit(SortByKey(priceOrder, key), PriceFindLimit)

\* Lines 596-607: the price records if there are any, else the Token
\* collection, cut to what the remaining calls can carry.
TokensToProcessUncut(allTokens) ==
    IF OldestUpdatedTokens # <<>> THEN OldestUpdatedTokens ELSE allTokens

TokensToProcess(allTokens) ==
    LET tokenAddresses == IF OldestUpdatedTokens # <<>> THEN OldestUpdatedTokens ELSE allTokens
        remainingCalls == RateLimit - apiCallsThisMinute
        maxTokens == remainingCalls * BATCH_SIZE
    IN  Limit(tokenAddresses, IF maxTokens < 0 THEN 0 ELSE maxTokens)

BatchAddresses(cyc) ==
    SubSeq(cyc.list, cyc.i,
           IF cyc.i + BATCH_SIZE - 1 < Len(cyc.list) THEN cyc.i + BATCH_SIZE - 1
           ELSE Len(cyc.list))

\* The head of the for loop with the cycle at cyc: the loop ends, the safety
\* check breaks, or fetchPriceData is called, which counts the call at once.
EnterBatchUnchecked(c, cyc) ==
    IF cyc.i > Len(cyc.list)
    THEN /\ cycles' = [cycles EXCEPT ![c] = IdleCycle]
         /\ UNCHANGED <<apiCallsThisMinute, callLog>>
    ELSE /\ cycles' = [cycles EXCEPT ![c] =
                        [cyc EXCEPT !.pc = "fetch", !.ops = <<>>]]
         /\ apiCallsThisMinute' = apiCallsThisMinute + 1
         /\ callLog' = [callLog EXCEPT ![now] = @ + 1]

EnterBatch(c, cyc) ==
    IF cyc.i > Len(cyc.list) \/ RateLimitReached
    THEN /\ cycles' = [cycles EXCEPT ![c] = IdleCycle]
         /\ UNCHANGED <<apiCallsThisMinute, callLog>>
    ELSE /\ cycles' = [cycles EXCEPT ![c] =
                        [cyc EXCEPT !.pc = "fetch", !.ops = <<>>]]
         /\ apiCallsThisMinute' = apiCallsThisMinute + 1
         /\ callLog' = [callLog EXCEPT ![now] = @ + 1]

\* The tail of the loop body: the 100 ms delay if another batch follows.
\* outcome tells whether the batch's aggregator call failed.
AfterBatchAborting(cyc, outcome) ==
    IF cyc.i + BATCH_SIZE <= Len(cyc.list) /\ outcome # "apiError"
    THEN [cyc EXCEPT !.pc = "delay", !.ops = <<>>, !.outcome = outcome]
    ELSE IdleCycle

AfterBatch(cyc, outcome) ==
    IF cyc.i + BATCH_SIZE <= Len(cyc.list)
    THEN [cyc EXCEPT !.pc = "delay", !.ops = <<>>, !.outcome = outcome]
    ELSE IdleCycle

\* A cron period passes: the schedule is due again, and every MinuteTicks
\* periods the reset interval.  Timers that are due run first; a cron run
\* beyond MaxCycles runs in flight is not followed.
PollTick ==
    /\ now < MaxPollTime
    /\ ~resetDue
    /\ ~cronDue \/ \A c \in 1..MaxCycles : cycles[c].pc # "idle"
    /\ now' = now + 1
    /\ cronDue' = TRUE
    /\ resetDue' = (resetIn = 1)
    /\ resetIn' = IF resetIn = 1 THEN MinuteTicks ELSE resetIn - 1
    /\ UNCHANGED <<tokenDocs, insertOrder, chainVars, trackerVars, jobVars,
                   tokenPrices, priceOrder, apiCallsThisMinute, cycles, callLog>>

\* The setInterval callback of setupApiCallTracking.
ApiCallReset ==
    /\ resetDue
    /\ resetDue' = FALSE
    /\ apiCallsThisMinute' = 0
    /\ UNCHANGED <<storeVars, chainVars, trackerVars, jobVars,
                   tokenPrices, priceOrder, cycles, cronDue, callLog, resetIn>>

\* updateTokenPrices() is called (the initial run, then the cron schedule):
\* the rate check, then Token.find is awaited.
UpdateTokenPricesUnchecked(c) ==
    /\ cronDue
    /\ cycles[c].pc = "idle"
    /\ \A d \in 1..(c - 1) : cycles[d].pc # "idle"
    /\ cronDue' = FALSE
    /\ cycles' = [cycles EXCEPT ![c] = [IdleCycle EXCEPT !.pc = "findTokens", !.start = now]]
    /\ UNCHANGED <<storeVars, chainVars, trackerVars, jobVars,
                   tokenPrices, priceOrder, apiCallsThisMinute, resetDue, callLog, resetIn>>

UpdateTokenPrices(c) ==
    /\ cronDue
    /\ cycles[c].pc = "idle"
    /\ \A d \in 1..(c - 1) : cycles[d].pc # "idle"
    /\ cronDue' = FALSE
    /\ cycles' = IF RateLimitReached THEN cycles
                 ELSE [cycles EXCEPT ![c] = [IdleCycle EXCEPT !.pc = "findTokens", !.start = now]]
    /\ UNCHANGED <<storeVars, chainVars, trackerVars, jobVars,
                   tokenPrices, priceOrder, apiCallsThisMinute, resetDue, callLog, resetIn>>

\* Token.find resolves; TokenPrice.find is awaited.
FindAllTokens(c, dbOk) ==
    /\ cycles[c].pc = "findTokens"
    /\ cycles' = [cycles EXCEPT ![c] =
            IF ~dbOk \/ insertOrder = <<>> THEN IdleCycle
            ELSE [@ EXCEPT !.pc = "findPrices", !.all = insertOrder]]
    /\ UNCHANGED <<storeVars, chainVars, trackerVars, jobVars,
                   tokenPrices, priceOrder, apiCallsThisMinute, cronDue, resetDue, callLog, resetIn>>

\* TokenPrice.find resolves: the selection, and the first turn of the loop.
SelectTokens(c, dbOk) ==
    /\ cycles[c].pc = "findPrices"
    /\ IF ~dbOk
       THEN /\ cycles' = [cycles EXCEPT ![c] = IdleCycle]
            /\ UNCHANGED <<apiCallsThisMinute, callLog>>
       ELSE EnterBatch(c, [cycles[c] EXCEPT !.list = TokensToProcess(cycles[c].all),
                                            !.all = <<>>, !.i = 1])
    /\ UNCHANGED <<storeVars, chainVars, trackerVars, jobVars,
                   tokenPrices, priceOrder, cronDue, resetDue, resetIn>>

\* The aggregator's answer arrives.  An HTTP error, or a throw while the
\* entries are parsed, is caught and gives { tokens: {} }; otherwise one
\* upsert per entry, stamped new Date() as it is built.
FetchPriceData(c, httpOk, resp) ==
    /\ cycles[c].pc = "fetch"
    /\ DOMAIN resp = 1..Len(BatchAddresses(cycles[c]))
    /\ LET addrs == BatchAddresses(cycles[c])
           threw == ~httpOk \/ \E n \in 1..Len(addrs) : resp[n] = Malformed
           present == SelectSeq([n \in 1..Len(addrs) |-> n], LAMBDA n : resp[n] # Absent)
           operations == [m \in 1..Len(present) |->
                            [addr |-> addrs[present[m]], data |-> resp[present[m]],
                             last_updated |-> now]]
       IN  cycles' = [cycles EXCEPT ![c] =
                IF threw THEN AfterBatch(@, "apiError")
                ELSE IF operations = <<>> THEN AfterBatch(@, "none")
                ELSE [@ EXCEPT !.pc = "write", !.ops = operations]]
    /\ UNCHANGED <<storeVars, chainVars, trackerVars, jobVars,
                   tokenPrices, priceOrder, apiCallsThisMinute, cronDue, resetDue, callLog, resetIn>>

\* An updateOne with upsert: $set of the fetched fields and last_updated.
Upsert(prices, ops) ==
    [a \in Addrs |->
        IF \E m \in 1..Len(ops) : ops[m].addr = a
        THEN LET op == ops[CHOOSE m \in 1..Len(ops) : ops[m].addr = a]
             IN  [price_usd |-> op.data.price_usd, fdv_usd |-> op.data.fdv_usd,
                  volume_usd |-> op.data.volume_usd, last_updated |-> op.last_updated]
        ELSE prices[a]]

\* TokenPrice.bulkWrite resolves, or rejects into the batch's catch.
BulkWrite(c, dbOk) ==
    /\ cycles[c].pc = "write"
    /\ IF dbOk
       THEN /\ tokenPrices' = Upsert(tokenPrices, cycles[c].ops)
            /\ priceOrder' = priceOrder \o
                    SelectSeq([m \in 1..Len(cycles[c].ops) |-> cycles[c].ops[m].addr],
                              LAMBDA a : tokenPrices[a] = NoDoc)
       ELSE UNCHANGED <<tokenPrices, priceOrder>>
    /\ cycles' = [cycles EXCEPT ![c] = AfterBatch(@, "none")]
    /\ UNCHANGED <<storeVars, chainVars, trackerVars, jobVars,
                   apiCallsThisMinute, cronDue, resetDue, callLog, resetIn>>

\* The delay between two batches is over: the next turn of the loop.
BatchDelay(c) ==
    /\ cycles[c].pc = "delay"
    /\ EnterBatch(c, [cycles[c] EXCEPT !.i = @ + BATCH_SIZE])
    /\ UNCHANGED <<storeVars, chainVars, trackerVars, jobVars,
                   tokenPrices, priceOrder, cronDue, resetDue, resetIn>>

(***************************************************************************)
(* Initial states: the Token collection holds the reference asset and t1;  *)
(* t2 is inserted later.  The factory knows a pool for a token at some     *)
(* tiers or at none.                                                       *)
(***************************************************************************)
Lookup(a, tiers) ==
    [i \in 1..Len(FEE_TIERS) |-> IF i \in tiers THEN PoolAddr(a, i) ELSE ZeroAddress]

FactoryChoices ==
    {[a \in Addrs |-> IF a = WETH_ADDRESS THEN Lookup(a, {}) ELSE Lookup(a, f[a])] :
        f \in [Tokens -> {{}, {2, 3}}]}

InitStore ==
    /\ tokenDocs = [a \in Addrs |-> IF a = "t2" THEN NoDoc ELSE NewTokenDoc(0)]
    /\ insertOrder = <<WETH_ADDRESS, "t1">>
    /\ now = 0

InitChain ==
    /\ factory \in FactoryChoices
    /\ anchorFactory \in {Lookup("usdc", {}), Lookup("usdc", {1})}
    /\ anchorSqrt \in {0, Q96}
    /\ sqrtPrice = [a \in Tokens |-> Q96]
    /\ token0IsWeth \in {[a \in Tokens |-> FALSE], [a \in Tokens |-> TRUE]}
    /\ chainSupply = [a \in Addrs |-> 5]

InitTracker ==
    /\ initPc = "notStarted"
    /\ session = 0
    /\ wsProvider = 0
    /\ changeStreams = <<>>
    /\ streamRetry = 0
    /\ events = {}
    /\ tokens = <<>>
    /\ trackQueue = [s \in 1..MaxSessions |-> <<>>]
    /\ swapListeners = [a \in Addrs |-> <<>>]
    /\ anchorListeners = <<>>
    /\ wethPriceUsd = Null
    /\ resolver = IdleResolver
    /\ wsDropped = {}

InitJobs ==
    /\ swapJobs = [j \in 1..MaxSwapJobs |-> IdleJob("none")]
    /\ batch = IdleBatch
    /\ priceAsOf = [a \in Tokens |-> 0]
    /\ started = [swaps |-> 0, runs |-> 0]

\* The poller before initializeDataFetching: no price record, no call made.
InitPoll ==
    /\ tokenPrices = [a \in Addrs |-> NoDoc]
    /\ priceOrder = <<>>
    /\ apiCallsThisMinute = 0
    /\ cycles = [c \in 1..MaxCycles |-> IdleCycle]
    /\ cronDue = FALSE
    /\ resetDue = FALSE
    /\ resetIn = MinuteTicks
    /\ callLog = [t \in 0..MaxPollTime |-> 0]

Init == InitStore /\ InitChain /\ InitTracker /\ InitJobs /\ InitPoll

\* The state after a successful initialize(): one change stream, the anchor
\* listener, one Swap listener for t1, the anchor seeded unless the seed
\* price was rejected.
InitInitialized ==
    /\ InitChain /\ InitJobs /\ InitPoll
    /\ factory["t1"] # Lookup("t1", {})
    /\ anchorFactory # Lookup("usdc", {})
    /\ initPc = "done"
    /\ session = 1
    /\ wsProvider = 1
    /\ changeStreams = <<1>>
    /\ streamRetry = 0
    /\ events = {}
    /\ tokens = insertOrder
    /\ trackQueue = [s \in 1..MaxSessions |-> <<>>]
    /\ swapListeners = [a \in Addrs |->
            IF a = "t1" THEN <<[pool |-> ProbeFrom(factory[a], 1), provider |-> 1]>>
            ELSE <<>>]
    /\ anchorListeners = <<[pool |-> ProbeFrom(anchorFactory, 1), provider |-> 1]>>
    /\ wethPriceUsd = IF CalculateWethPrice(anchorSqrt) = Zero THEN Null
                      ELSE CalculateWethPrice(anchorSqrt)
    /\ resolver = IdleResolver
    /\ wsDropped = {}

InitSubscribed == InitStore /\ InitInitialized

NextTracker ==
    \/ InitializeDataFetching
    \/ \E ok \in BOOLEAN : MongooseConnect(ok)
    \/ \E ok \in BOOLEAN : SetupChangeStream(ok)
    \/ RetryChangeStream
    \/ \E ok \in BOOLEAN : LoadTokens(ok)
    \/ \E ok \in BOOLEAN : ConnectWebSocket(ok)
    \/ \E ok \in BOOLEAN : RetrieveInitialWethPrice(ok)
    \/ \E ok \in BOOLEAN : TrackWethPrice(ok)
    \/ TrackTokenPrices
    \/ \E s \in 1..MaxSessions, ok \in BOOLEAN : TrackStep(s, ok)
    \/ Reconnect
    \/ \E a \in Tokens : InsertToken(a)
    \/ \E i \in 1..MaxSessions, a \in Tokens, ok \in BOOLEAN : OnChangeInsert(i, a, ok)
    \/ \E sq \in SqrtChoices : AnchorSwap(sq)

SpecTracker == Init /\ [][NextTracker]_vars

\* The socket of this.wsProvider closes.  The tracker registers no handler
\* for it: nothing but the provider's state changes.
ConnectionLost ==
    /\ wsProvider # 0
    /\ wsProvider \notin wsDropped
    /\ wsDropped' = wsDropped \cup {wsProvider}
    /\ UNCHANGED <<storeVars, chainVars, pollVars, jobVars, initPc, session, wsProvider,
                   changeStreams, streamRetry, events, tokens, trackQueue, swapListeners,
                   anchorListeners, wethPriceUsd, resolver>>

\* A pool for token a is created on chain: getPool now answers with it.
CreatePool(a) ==
    /\ factory[a] = Lookup(a, {})
    /\ factory' = [factory EXCEPT ![a] = Lookup(a, {2, 3})]
    /\ UNCHANGED <<storeVars, anchorFactory, anchorSqrt, sqrtPrice, token0IsWeth, chainSupply,
                   trackerVars, pollVars, jobVars>>

\* The tracker's own steps: callbacks and timers that the event loop runs
\* once they are ready.
TrackerSteps ==
    \/ InitializeDataFetching
    \/ \E ok \in BOOLEAN : MongooseConnect(ok)
    \/ \E ok \in BOOLEAN : SetupChangeStream(ok)
    \/ RetryChangeStream
    \/ \E ok \in BOOLEAN : LoadTokens(ok)
    \/ \E ok \in BOOLEAN : ConnectWebSocket(ok)
    \/ \E ok \in BOOLEAN : RetrieveInitialWethPrice(ok)
    \/ \E ok \in BOOLEAN : TrackWethPrice(ok)
    \/ TrackTokenPrices
    \/ \E s \in 1..MaxSessions, ok \in BOOLEAN : TrackStep(s, ok)
    \/ Reconnect
    \/ \E i \in 1..MaxSessions, a \in Tokens, ok \in BOOLEAN : OnChangeInsert(i, a, ok)

\* The tracker with its environment: inserts into the Token collection,
\* pools created on chain, the connection dropping.  The event loop starves
\* no ready step of the tracker; the environment is under no obligation.
NextTrackerLive ==
    \/ TrackerSteps
    \/ \E a \in Tokens : InsertToken(a)
    \/ ConnectionLost
    \/ \E a \in Tokens : CreatePool(a)

SpecTrackerLive == Init /\ [][NextTrackerLive]_vars /\ WF_vars(TrackerSteps)

\* The write paths on the Token collection: Swap handlers and the batch
\* processor, interleaved, with the anchor as initialize() left it.
NextWrite ==
    \/ Tick
    \/ \E j \in 1..MaxSwapJobs, a \in Tokens, sq \in SqrtChoices : SwapEvent(j, a, sq)
    \/ \E j \in 1..MaxSwapJobs, ok \in BOOLEAN : ReadPool(j, ok)
    \/ \E j \in 1..MaxSwapJobs, ok \in BOOLEAN : ReadSupply(j, ok)
    \/ \E j \in 1..MaxSwapJobs, ok \in BOOLEAN : FindOneToken(j, ok)
    \/ \E j \in 1..MaxSwapJobs, ok \in BOOLEAN : SaveToken(j, ok)
    \/ \E j \in 1..MaxSwapJobs : HandlerUpdate(j)
    \/ \E ok \in BOOLEAN : ProcessTokensInBatches(ok)
    \/ \E resp \in [batch.i..BatchEnd(batch) -> GeckoChoices] : FetchGeckoTerminalData(resp)
    \/ \E supplyOk \in BOOLEAN, saveOk \in BOOLEAN : ProcessBatchToken(supplyOk, saveOk)
    \/ NextBatch

SpecWrite == InitSubscribed /\ [][NextWrite]_vars

\* The anchor's writes next to the batch processor's: the WETH document is
\* one of the Token collection, written by the anchor listener and by the
\* batch processor.
NextAnchorWrite ==
    \/ Tick
    \/ \E sq \in SqrtChoices : AnchorSwap(sq)
    \/ \E ok \in BOOLEAN : ProcessTokensInBatches(ok)
    \/ \E resp \in [batch.i..BatchEnd(batch) -> GeckoChoices] : FetchGeckoTerminalData(resp)
    \/ \E supplyOk \in BOOLEAN, saveOk \in BOOLEAN : ProcessBatchToken(supplyOk, saveOk)
    \/ NextBatch

SpecAnchorWrite == InitSubscribed /\ [][NextAnchorWrite]_vars

\* The running process after initialize(): Swap handlers, the change
\* handler and the aggregator poller side by side, each step of which may
\* fail.  Runs of updateTokenPrices do not overlap here.
NextProcess ==
    \/ \E j \in 1..MaxSwapJobs, a \in Tokens : SwapEvent(j, a, Q96)
    \/ \E j \in 1..MaxSwapJobs, ok \in BOOLEAN : ReadPool(j, ok)
    \/ \E j \in 1..MaxSwapJobs, ok \in BOOLEAN : ReadSupply(j, ok)
    \/ \E j \in 1..MaxSwapJobs, ok \in BOOLEAN : FindOneToken(j, ok)
    \/ \E j \in 1..MaxSwapJobs, ok \in BOOLEAN : SaveToken(j, ok)
    \/ \E j \in 1..MaxSwapJobs : HandlerUpdate(j)
    \/ \E a \in Tokens : InsertToken(a)
    \/ \E i \in 1..MaxSessions, a \in Tokens, ok \in BOOLEAN : OnChangeInsert(i, a, ok)
    \/ PollTick
    \/ ApiCallReset
    \/ UpdateTokenPrices(1)
    \/ \E ok \in BOOLEAN : FindAllTokens(1, ok)
    \/ \E ok \in BOOLEAN : SelectTokens(1, ok)
    \/ \E ok \in BOOLEAN, resp \in [1..Len(BatchAddresses(cycles[1])) -> {PollFull}] :
            FetchPriceData(1, ok, resp)
    \/ \E ok \in BOOLEAN : BulkWrite(1, ok)
    \/ BatchDelay(1)

InitProcess ==
    /\ InitSubscribed
    /\ factory = [a \in Addrs |-> IF a = WETH_ADDRESS THEN Lookup(a, {}) ELSE Lookup(a, {2, 3})]
    /\ anchorFactory = Lookup(USDC_ADDRESS, {1})
    /\ anchorSqrt = Q96
    /\ token0IsWeth = [a \in Tokens |-> FALSE]

SpecProcess == InitProcess /\ [][NextProcess]_vars

\* The quote computation: Swap handlers of t1 run one after another over
\* every scaled square-root price up to MaxSqrtPrice, with the reference
\* asset on either side of the pool and t1's decimals equal to the reference
\* asset's or two less.
InitQuoteStore ==
    /\ insertOrder = <<WETH_ADDRESS, "t1">>
    /\ now = 0
    /\ \E d \in {DefaultDecimals, DefaultDecimals - 2} :
            tokenDocs = [a \in Addrs |->
                IF a = "t2" THEN NoDoc
                ELSE IF a = "t1" THEN [NewTokenDoc(0) EXCEPT !.decimals = d]
                ELSE NewTokenDoc(0)]

NextQuote ==
    \/ \E j \in 1..MaxSwapJobs, sq \in 1..MaxSqrtPrice : SwapEvent(j, "t1", sq)
    \/ \E j \in 1..MaxSwapJobs, ok \in BOOLEAN : ReadPool(j, ok)
    \/ \E j \in 1..MaxSwapJobs, ok \in BOOLEAN : ReadSupply(j, ok)
    \/ \E j \in 1..MaxSwapJobs, ok \in BOOLEAN : FindOneToken(j, ok)
    \/ \E j \in 1..MaxSwapJobs, ok \in BOOLEAN : SaveToken(j, ok)
    \/ \E j \in 1..MaxSwapJobs : HandlerUpdate(j)

InitQuote ==
    /\ InitQuoteStore
    /\ InitInitialized
    /\ factory = [a \in Addrs |-> IF a = WETH_ADDRESS THEN Lookup(a, {}) ELSE Lookup(a, {2, 3})]
    /\ anchorFactory = Lookup(USDC_ADDRESS, {1})
    /\ anchorSqrt = Q96

SpecQuote == InitQuote /\ [][NextQuote]_vars

\* The Pool Resolver alone, against a factory that knows a pool at any
\* subset of the fee tiers.
InitResolver ==
    /\ InitStore /\ InitJobs /\ InitPoll
    /\ \E tiers \in SUBSET (1..Len(FEE_TIERS)) : factory = [a \in Addrs |-> Lookup(a, tiers)]
    /\ \E tiers \in SUBSET (1..Len(FEE_TIERS)) : anchorFactory = Lookup(USDC_ADDRESS, tiers)
    /\ anchorSqrt = Q96
    /\ sqrtPrice = [a \in Tokens |-> Q96]
    /\ token0IsWeth = [a \in Tokens |-> FALSE]
    /\ chainSupply = [a \in Addrs |-> 5]
    /\ initPc = "done"
    /\ session = 1
    /\ wsProvider = 1
    /\ changeStreams = <<1>>
    /\ streamRetry = 0
    /\ events = {}
    /\ tokens = insertOrder
    /\ trackQueue = [s \in 1..MaxSessions |-> <<>>]
    /\ swapListeners = [a \in Addrs |-> <<>>]
    /\ anchorListeners = <<>>
    /\ wethPriceUsd = Null
    /\ resolver = IdleResolver
    /\ wsDropped = {}

NextResolver ==
    \/ \E pair \in Tokens \cup {USDC_ADDRESS} : ResolverCall(pair)
    \/ \E ok \in BOOLEAN : ResolverProbe(ok)
    \/ ResolverReturn

SpecResolver == InitResolver /\ [][NextResolver]_vars

\* The poller alone, from initializeDataFetching (lines 671-685): the reset
\* interval is set up and the initial update is due.  The Token collection
\* holds three tokens; the tracker is not running.
InitPolling ==
    /\ tokenDocs = [a \in Addrs |-> NewTokenDoc(0)]
    /\ insertOrder = <<WETH_ADDRESS, "t1", "t2">>
    /\ now = 0
    /\ InitChain
    /\ factory = [a \in Addrs |-> Lookup(a, {})]
    /\ anchorFactory = Lookup("usdc", {})
    /\ anchorSqrt = 0
    /\ token0IsWeth = [a \in Tokens |-> FALSE]
    /\ InitTracker /\ InitJobs
    /\ tokenPrices = [a \in Addrs |-> NoDoc]
    /\ priceOrder = <<>>
    /\ apiCallsThisMinute = 0
    /\ cycles = [c \in 1..MaxCycles |-> IdleCycle]
    /\ cronDue = TRUE
    /\ resetDue = FALSE
    /\ resetIn = MinuteTicks
    /\ callLog = [t \in 0..MaxPollTime |-> 0]

NextPoller ==
    \/ PollTick
    \/ ApiCallReset
    \/ \E c \in 1..MaxCycles : UpdateTokenPrices(c)
    \/ \E c \in 1..MaxCycles, ok \in BOOLEAN : FindAllTokens(c, ok)
    \/ \E c \in 1..MaxCycles, ok \in BOOLEAN : SelectTokens(c, ok)
    \/ \E c \in 1..MaxCycles :
            \E ok \in BOOLEAN, resp \in [1..Len(BatchAddresses(cycles[c])) -> PollChoices] :
                FetchPriceData(c, ok, resp)
    \/ \E c \in 1..MaxCycles, ok \in BOOLEAN : BulkWrite(c, ok)
    \/ \E c \in 1..MaxCycles : BatchDelay(c)

SpecPoller == InitPolling /\ [][NextPoller]_vars

\* Time beyond the horizon: a cron period passes with the clock reading kept
\* at MaxPollTime and every stored reading moved one period into the past
\* (readings at the bottom stay there), so that periods follow one another
\* without end.
Age(t) == IF t = 0 THEN 0 ELSE t - 1

PollTickShift ==
    /\ now = MaxPollTime
    /\ ~resetDue
    /\ ~cronDue \/ \A c \in 1..MaxCycles : cycles[c].pc # "idle"
    /\ cronDue' = TRUE
    /\ resetDue' = (resetIn = 1)
    /\ resetIn' = IF resetIn = 1 THEN MinuteTicks ELSE resetIn - 1
    /\ tokenPrices' = [a \in Addrs |->
            IF tokenPrices[a] = NoDoc THEN NoDoc
            ELSE [tokenPrices[a] EXCEPT !.last_updated = Age(tokenPrices[a].last_updated)]]
    /\ cycles' = [c \in 1..MaxCycles |->
            [cycles[c] EXCEPT
                !.start = Age(cycles[c].start),
                !.ops = IF cycles[c].ops = <<>> THEN <<>>
                        ELSE [m \in 1..Len(cycles[c].ops) |->
                                [cycles[c].ops[m] EXCEPT
                                    !.last_updated = Age(cycles[c].ops[m].last_updated)]]]]
    /\ callLog' = [t \in 0..MaxPollTime |-> IF t < MaxPollTime THEN callLog[t + 1] ELSE 0]
    /\ UNCHANGED <<storeVars, chainVars, trackerVars, jobVars, priceOrder, apiCallsThisMinute>>

\* The poller over unbounded time, with runs of updateTokenPrices that do
\* not overlap (a run of the schedule begins when the one before it is
\* over) and a database that answers its reads; the aggregator may fail, or
\* leave addresses out, and a bulk write may be rejected.
NextPollerLive ==
    \/ PollTick
    \/ PollTickShift
    \/ ApiCallReset
    \/ UpdateTokenPrices(1)
    \/ FindAllTokens(1, TRUE)
    \/ SelectTokens(1, TRUE)
    \/ \E ok \in BOOLEAN, resp \in [1..Len(BatchAddresses(cycles[1])) -> {Absent, PollFull}] :
            FetchPriceData(1, ok, resp)
    \/ \E ok \in BOOLEAN : BulkWrite(1, ok)
    \/ BatchDelay(1)

\* The aggregator answered for every address of the batch.
FullResponse(c) == [n \in 1..Len(BatchAddresses(cycles[c])) |-> PollFull]

\* Timers fire and ready continuations run (the event loop starves none);
\* the aggregator and the bulk write do not fail for ever: a request that is
\* made again and again succeeds again and again.
FairPoller ==
    /\ WF_vars(PollTick \/ PollTickShift)
    /\ WF_vars(ApiCallReset)
    /\ WF_vars(UpdateTokenPrices(1))
    /\ WF_vars(BatchDelay(1))
    /\ WF_vars(FindAllTokens(1, TRUE))
    /\ WF_vars(SelectTokens(1, TRUE))
    /\ SF_vars(FetchPriceData(1, TRUE, FullResponse(1)))
    /\ SF_vars(BulkWrite(1, TRUE))

SpecPollerLive == InitPolling /\ [][NextPollerLive]_vars /\ FairPoller

(***************************************************************************)
(* Claims about the subscription handles (SpecTracker).                    *)
(***************************************************************************)

\* C1: in every reachable state there is at most one live Swap listener per
\* token; subscribing an already subscribed token (initial pass, insert
\* notification, repeated subscribeToPool) leaves exactly one handle.
C1_AtMostOneListenerPerToken ==
    \A a \in Addrs : Len(swapListeners[a]) <= 1

\* The sessions whose handles (change streams, anchor listeners, token Swap
\* listeners) are live.
LiveHandleSessions ==
    {changeStreams[i] : i \in 1..Len(changeStreams)}
        \cup {anchorListeners[i].provider : i \in 1..Len(anchorListeners)}
        \cup UNION {{swapListeners[a][i].provider : i \in 1..Len(swapListeners[a])} :
                        a \in Addrs}

\* C2: on reconnect every handle of the prior session is discarded before a
\* new one is created, so live handles of two different sessions never
\* coexist and no handle of an earlier session can still fire and write.
C2_NoHandleOfEarlierSession ==
    \A s1, s2 \in LiveHandleSessions : s1 = s2


\* The factory holds a pool for a at some fee tier.
PoolOf(a, poolAddress) ==
    /\ poolAddress # Null
    /\ poolAddress # ZeroAddress
    /\ \E i \in 1..Len(FEE_TIERS) : factory[a][i] = poolAddress

\* C26: a Swap listener is registered for a token only in a step in which
\* the resolver gave a pool: the provider is up, the factory holds a pool
\* for the token, and the one new listener is on that pool.  A token whose
\* resolution gives no pool, or fails, gets no listener, in the initial pass
\* and in the insert handler.
C26_SubscribedOnlyOnResolvedPool ==
    [][\A a \in Addrs : swapListeners'[a] # swapListeners[a] =>
            /\ ~ProviderDown
            /\ Len(swapListeners'[a]) = Len(swapListeners[a]) + 1
            /\ SubSeq(swapListeners'[a], 1, Len(swapListeners[a])) = swapListeners[a]
            /\ PoolOf(a, swapListeners'[a][Len(swapListeners'[a])].pool)
            /\ (\E s \in 1..MaxSessions : trackQueue[s] # <<>> /\ a = Head(trackQueue[s]))
                    \/ (\E i \in 1..Len(changeStreams) : <<i, a>> \in events)]_vars

\* Both outcomes after the initial pass: t1 resolved and subscribed, the
\* reference asset's own record without a pool and without a listener.
C26_ResolvedAndUnresolvedPassed ==
    /\ initPc = "done"
    /\ \A s \in 1..MaxSessions : trackQueue[s] = <<>>
    /\ events = {}
    /\ swapListeners["t1"] # <<>>
    /\ \E b \in Addrs : /\ \E i \in 1..Len(tokens) : tokens[i] = b
                        /\ ProbeFrom(factory[b], 1) = Null
                        /\ swapListeners[b] = <<>>

\* 0 < w <= 1,000,000.
InAnchorRange(w) ==
    ~IsNaN(w) /\ NumGtInt(w, 0) /\ ~NumGtInt(w, PriceCeiling)

\* C30: wethPriceUsd is null or a number in (0, 1,000,000]; a step that
\* changes it sets it to the price of the anchor pool's square-root price,
\* which is in that range; once it is not null it never is null again,
\* whatever the session.
C30_AnchorNullOrInRange ==
    /\ [](wethPriceUsd = Null \/ InAnchorRange(wethPriceUsd))
    /\ [][wethPriceUsd' # wethPriceUsd =>
            /\ wethPriceUsd' =
                    Num((anchorSqrt' * anchorSqrt' * (10 ^ UsdcWethDigits)) \div (Q96 * Q96), 1)
            /\ InAnchorRange(wethPriceUsd')]_vars
    /\ [][wethPriceUsd # Null => wethPriceUsd' # Null]_vars

\* In a second session the anchor still holds the price of an earlier Swap
\* after a Swap whose price is above the ceiling.
C30_AnchorKeptAfterRejectedSwap ==
    /\ session > 1
    /\ wethPriceUsd # Null
    /\ InAnchorRange(wethPriceUsd)
    /\ CalculateWethPriceFromSwap(anchorSqrt) = Zero
    /\ anchorSqrt > Q96

C18_InsertTriggersSetupOnce ==
    [][\A a \in Addrs :
        (tokenDocs[a] = NoDoc /\ tokenDocs'[a] # NoDoc /\ changeStreams # <<>>)
            => Cardinality({e \in events' \ events : e[2] = a}) = 1]_vars

(***************************************************************************)
(* Claims about the writers of the Token collection (SpecWrite).           *)
(***************************************************************************)
\* C4: when a trade-event write and a reconciliation write for one token
\* interleave, the stored price is never replaced by one whose data was read
\* or fetched earlier than the data behind the price it replaces.
C4_NoStalePriceOverFresher ==
    [][\A a \in Tokens : priceAsOf'[a] >= priceAsOf[a]]_vars

\* C5: the stored last_updated of a token never decreases.
C5_LastUpdatedNeverDecreases ==
    [][\A a \in Addrs :
        tokenDocs[a] # NoDoc /\ tokenDocs'[a] # NoDoc
            => tokenDocs'[a].last_updated >= tokenDocs[a].last_updated]_vars

\* A quote that is not a finite positive number, or is above the ceiling.
QuoteInvalid(priceUsd) ==
    \/ IsNaN(priceUsd)
    \/ ~IsFinite(priceUsd)
    \/ ~NumGtInt(priceUsd, 0)
    \/ NumGtInt(priceUsd, PriceCeiling)

\* C6: a Swap handler whose computed quote is zero, negative, NaN, infinite
\* or above 1,000,000 leaves the Token collection as it was.
C6_InvalidQuoteWritesNothing ==
    [][\A j \in 1..MaxSwapJobs :
        /\ swapJobs[j].pc \in {"blockNumber", "update"}
        /\ swapJobs'[j] # swapJobs[j]
        /\ QuoteInvalid(swapJobs[j].priceUsd)
        => tokenDocs' = tokenDocs]_vars

\* C7: a Swap delivered while the anchor price is not populated writes
\* nothing, starts no further step of the handler and raises no error.
C7_AnchorlessSwapDeferred ==
    [][(started'.swaps # started.swaps /\ wethPriceUsd = Null)
        => /\ tokenDocs' = tokenDocs
           /\ \A j \in 1..MaxSwapJobs :
                swapJobs[j].pc = "idle"
                    => /\ swapJobs'[j].pc = "idle"
                       /\ (swapJobs'[j].outcome = "error" => swapJobs[j].outcome = "error")]_vars

C7_DeferredReached ==
    /\ wethPriceUsd = Null
    /\ started.swaps > 0
    /\ \E j \in 1..MaxSwapJobs : swapJobs[j] = IdleJob("deferred")
    /\ tokenDocs["t1"] = NewTokenDoc(0)

\* C9: in a batch, the step for an address absent from the aggregator's
\* response writes no field of its document, and the step for a present
\* address either stamps it with the current time or (save rejected) leaves it.
C9_AbsentAddressNotWritten ==
    [][(batch.pc = "token" /\ batch' # batch)
        => LET a == batch.docs[batch.k].addr
           IN  IF batch.data[batch.k] = Absent
               THEN tokenDocs'[a] = tokenDocs[a]
               ELSE tokenDocs'[a] = tokenDocs[a] \/ tokenDocs'[a].last_updated = now]_vars


\* C16: a failed or timed-out totalSupply() read does not touch the price
\* path: the Swap handler goes on with the quote it computed, as it does
\* after a successful read.
C16_SupplyFailureKeepsPricePath ==
    [][\A j \in 1..MaxSwapJobs :
        (swapJobs[j].pc = "readSupply" /\ swapJobs'[j] # swapJobs[j])
            => /\ swapJobs'[j].pc = "findOne"
               /\ swapJobs'[j].priceUsd = swapJobs[j].priceUsd]_vars

(***************************************************************************)
(* Claims about the aggregator poller (SpecPoller).                        *)
(***************************************************************************)
RECURSIVE CallsIn(_, _)
CallsIn(from, to) == IF from > to THEN 0 ELSE callLog[from] + CallsIn(from + 1, to)

\* C3: in every window of one minute (MinuteTicks consecutive cron periods)
\* the number of aggregator calls issued is at most the ceiling.
C3_RollingWindowWithinCeiling ==
    \A t \in 0..(MaxPollTime - MinuteTicks + 1) :
        CallsIn(t, t + MinuteTicks - 1) <= RateLimit

\* C8: a stored price, valuation or volume is never negative, and one that is
\* a positive number is never replaced by zero or NaN.
C8_PositiveValueNeverZeroed ==
    [][\A a \in Addrs : \A f \in {"price_usd", "fdv_usd", "volume_usd"} :
        /\ tokenPrices'[a] # NoDoc => ~NumLtZero(tokenPrices'[a][f])
        /\ (tokenPrices[a] # NoDoc /\ Truthy(tokenPrices[a][f]))
                => Truthy(tokenPrices'[a][f])]_vars

\* The last-updated value the poller's selection is about: the time of the
\* token's price record, before every time if it has none.
StaleKey(a) == IF tokenPrices[a] = NoDoc THEN -1 ELSE tokenPrices[a].last_updated

Tracked == {insertOrder[n] : n \in 1..Len(insertOrder)}

StalestFirst(list) ==
    /\ \A n \in 1..Len(list) : list[n] \in Tracked
    /\ \A n, m \in 1..Len(list) : n < m => list[n] # list[m] /\ StaleKey(list[n]) <= StaleKey(list[m])
    /\ \A a \in Tracked :
        (\A n \in 1..Len(list) : list[n] # a)
            => \A n \in 1..Len(list) : StaleKey(list[n]) <= StaleKey(a)

\* C10: the tokens a cycle selects are the N tracked tokens with the smallest
\* last-updated values, in ascending order.
C10_SelectsStalestTokens ==
    [][\A c \in 1..MaxCycles :
        (cycles[c].pc = "findPrices" /\ cycles'[c].pc = "fetch")
            => StalestFirst(cycles'[c].list)]_vars


\* C11: when a cycle completes, every token it selected has a price record
\* whose last_updated is not before the cycle's start.
C11_SelectedTokensRefreshed ==
    [][\A c \in 1..MaxCycles :
        (cycles[c].pc # "idle" /\ cycles'[c].pc = "idle" /\ cycles[c].list # <<>>)
            => \A n \in 1..Len(cycles[c].list) :
                    /\ tokenPrices'[cycles[c].list[n]] # NoDoc
                    /\ tokenPrices'[cycles[c].list[n]].last_updated >= cycles[c].start]_vars

MoreBatches(cyc) == cyc.i + BATCH_SIZE <= Len(cyc.list)

\* C14: when the aggregator's answer is handled, one entry that cannot be
\* processed does not keep the other entries of the batch from being
\* written, and a batch that fails is followed by the cycle's next batch.
C14_FailureDoesNotAbort ==
    [][\A c \in 1..MaxCycles :
        /\ \A resp \in [1..Len(BatchAddresses(cycles[c])) -> PollChoices] :
            FetchPriceData(c, TRUE, resp)
                => \A n \in 1..Len(BatchAddresses(cycles[c])) :
                        resp[n] \in {PollFull, PollNull}
                            => \E m \in 1..Len(cycles'[c].ops) :
                                    cycles'[c].ops[m].addr = BatchAddresses(cycles[c])[n]
        /\ (cycles[c].pc \in {"fetch", "write"} /\ cycles'[c] # cycles[c] /\ MoreBatches(cycles[c]))
                => cycles'[c].pc \in {"write", "delay"}]_vars

\* C15: a failed aggregator call writes nothing and keeps its slot of the
\* budget (counted when the call was issued, not given back), and the cycle
\* goes on to its next batch, which is fetched unless the budget is used up.
C15_FailedCallSkipsBatchOnly ==
    [][\A c \in 1..MaxCycles :
        /\ (cycles[c].pc # "fetch" /\ cycles'[c].pc = "fetch")
                => apiCallsThisMinute' = apiCallsThisMinute + 1
        /\ \A resp \in [1..Len(BatchAddresses(cycles[c])) -> PollChoices] :
            FetchPriceData(c, FALSE, resp)
                => /\ tokenPrices' = tokenPrices
                   /\ apiCallsThisMinute' = apiCallsThisMinute
                   /\ MoreBatches(cycles[c])
                        => /\ cycles'[c].pc = "delay"
                           /\ cycles'[c].list = cycles[c].list
                           /\ cycles'[c].i = cycles[c].i
        /\ (cycles[c].pc = "delay" /\ cycles'[c] # cycles[c])
                => \/ cycles'[c].pc = "fetch" /\ cycles'[c].i = cycles[c].i + BATCH_SIZE
                   \/ RateLimitReached /\ cycles'[c].pc = "idle"]_vars

C15_NextBatchAfterFailedCall ==
    \E c \in 1..MaxCycles :
        /\ cycles[c].pc = "fetch"
        /\ cycles[c].i = 1 + BATCH_SIZE
        /\ cycles[c].outcome = "apiError"
        /\ apiCallsThisMinute >= 2
        /\ tokenPrices = [a \in Addrs |-> NoDoc]


\* C29: a step of a Swap handler for token a leaves volume_usd_24h,
\* pool_address and decimals of a's document as they were, creates and
\* removes no document, and leaves every other document as it was.
C29_SwapWriteKeepsForeignFields ==
    [][\A j \in 1..MaxSwapJobs : swapJobs'[j] # swapJobs[j] =>
            \A a \in Addrs :
                IF a = swapJobs[j].token /\ tokenDocs[a] # NoDoc
                THEN /\ tokenDocs'[a] # NoDoc
                     /\ tokenDocs'[a].volume_usd_24h = tokenDocs[a].volume_usd_24h
                     /\ tokenDocs'[a].pool_address = tokenDocs[a].pool_address
                     /\ tokenDocs'[a].decimals = tokenDocs[a].decimals
                ELSE tokenDocs'[a] = tokenDocs[a]]_vars

\* A handler has written its quote into a document that holds the batch
\* processor's volume, pool address and decimals.
C29_SwapWroteOverBatchData ==
    /\ \E j \in 1..MaxSwapJobs : swapJobs[j].outcome = "written"
    /\ tokenDocs["t1"] # NoDoc
    /\ tokenDocs["t1"].volume_usd_24h = GeckoFull.volume_usd_24h
    /\ tokenDocs["t1"].pool_address = GeckoFull.pool_address
    /\ tokenDocs["t1"].decimals = GeckoFull.decimals
    /\ tokenDocs["t1"].price_usd \notin {Zero, GeckoFull.price_usd}
    /\ tokenDocs["t1"].last_trade > 0

\* C25: after any write, by any path, every stored document has
\* market_cap_usd = price_usd * total_supply / 10^decimals.
C25_MarketCapMatchesPriceAndSupply ==
    \A a \in Addrs : tokenDocs[a] # NoDoc =>
        tokenDocs[a].market_cap_usd =
            MarketCap(tokenDocs[a].price_usd, tokenDocs[a].total_supply, tokenDocs[a].decimals)

\* What is left of the call budget, as line 603 computes it.
RemainingCalls == RateLimit - apiCallsThisMinute

NoAddressTwice(list) ==
    \A p, q \in 1..Len(list) : list[p] = list[q] => p = q

\* C27: a run selects at most RemainingCalls * BATCH_SIZE addresses, none of
\* them twice; its batches are the consecutive slices of the selection at
\* 1, 1 + BATCH_SIZE, ..., entered in that order, each of 1..BATCH_SIZE
\* addresses; a run ends after a batch only if it was the last slice; the
\* call counter moves by exactly one when a batch is entered and otherwise
\* only when it is reset.
C27_BatchesPartitionSelection ==
    /\ [](\A c \in 1..MaxCycles : cycles[c].pc = "findPrices" =>
            /\ Len(TokensToProcess(cycles[c].all)) <= RemainingCalls * BATCH_SIZE
            /\ NoAddressTwice(TokensToProcess(cycles[c].all)))
    /\ [][\A c \in 1..MaxCycles :
            LET cyc == cycles[c]
                nxt == cycles'[c]
            IN  /\ (nxt.pc = "fetch" /\ cyc.pc # "fetch") =>
                        /\ apiCallsThisMinute' = apiCallsThisMinute + 1
                        /\ Len(BatchAddresses(nxt)) \in 1..BATCH_SIZE
                        /\ IF cyc.pc = "findPrices"
                           THEN nxt.i = 1 /\ nxt.list = TokensToProcess(cyc.all)
                           ELSE /\ cyc.pc = "delay"
                                /\ nxt.list = cyc.list
                                /\ nxt.i = cyc.i + BATCH_SIZE
                /\ (cyc.pc \in {"fetch", "write"} /\ nxt.pc # "idle") =>
                        nxt.list = cyc.list /\ nxt.i = cyc.i
                /\ (cyc.pc \in {"fetch", "write"} /\ nxt.pc = "idle") =>
                        cyc.i + BATCH_SIZE > Len(cyc.list)]_vars
    /\ [][apiCallsThisMinute' # apiCallsThisMinute =>
            \/ apiCallsThisMinute' = 0
            \/ /\ apiCallsThisMinute' = apiCallsThisMinute + 1
               /\ Cardinality({c \in 1..MaxCycles :
                        cycles'[c].pc = "fetch" /\ cycles[c].pc # "fetch"}) = 1]_vars

\* One run is in the second slice of a selection of more than BATCH_SIZE
\* addresses while another is about to select with a budget that cuts it.
C27_SecondBatchAndCutSelection ==
    \E c, d \in 1..MaxCycles :
        /\ cycles[c].pc = "fetch"
        /\ cycles[c].i = 1 + BATCH_SIZE
        /\ Len(cycles[c].list) > BATCH_SIZE
        /\ cycles[d].pc = "findPrices"
        /\ TokensToProcess(cycles[d].all) # <<>>
        /\ Len(TokensToProcess(cycles[d].all)) < Len(cycles[d].all)
        /\ OldestUpdatedTokens = <<>>

\* A run issues an aggregator call: it enters fetchPriceData.
CallBy(c) == cycles'[c].pc = "fetch" /\ cycles[c].pc # "fetch"

\* C31: the call counter is the number of calls since its last reset (it
\* goes up by one with every call, and down only to 0 in the reset), a call
\* is issued only below the threshold, and so at most RateLimit - 1 calls
\* are issued between two resets, however many runs are in flight.
C31_CallsBetweenResetsBelowCeiling ==
    /\ [](apiCallsThisMinute <= RateLimit - 1)
    /\ [][\A c \in 1..MaxCycles : CallBy(c) =>
            /\ apiCallsThisMinute < RateLimit - 1
            /\ apiCallsThisMinute' = apiCallsThisMinute + 1]_vars
    /\ [][apiCallsThisMinute' # apiCallsThisMinute =>
            \/ \E c \in 1..MaxCycles : CallBy(c)
            \/ resetDue /\ ~resetDue' /\ apiCallsThisMinute' = 0]_vars

\* Two runs in flight with the counter at the threshold: one holds the
\* last call, the other has a batch left that it may not fetch.
C31_TwoRunsAtThreshold ==
    \E c, d \in 1..MaxCycles :
        /\ c # d
        /\ cycles[c].pc = "fetch"
        /\ cycles[d].pc \in {"findPrices", "delay"}
        /\ apiCallsThisMinute = RateLimit - 1

\* The runs of updateTokenPrices that have started and not returned.
InFlight == {c \in 1..MaxCycles : cycles[c].pc # "idle"}

\* The addresses of the aggregator call run c is waiting for.
AwaitedAddresses(c) ==
    IF cycles[c].pc = "fetch"
    THEN {BatchAddresses(cycles[c])[n] : n \in 1..Len(BatchAddresses(cycles[c]))}
    ELSE {}

\* C32: at most one run of updateTokenPrices is in flight, and no address
\* is in the pending aggregator calls of two runs.
C32_AtMostOneCycleInFlight ==
    /\ Cardinality(InFlight) <= 1
    /\ \A c, d \in 1..MaxCycles :
            c # d => AwaitedAddresses(c) \cap AwaitedAddresses(d) = {}

(***************************************************************************)
(* Claims checked on SpecProcess.                                          *)
(***************************************************************************)
\* A step in which an awaited call of a handler fails.
HandlerFails ==
    \/ \E j \in 1..MaxSwapJobs :
        \/ ReadPool(j, FALSE)
        \/ ReadSupply(j, FALSE)
        \/ FindOneToken(j, FALSE)
        \/ SaveToken(j, FALSE)
    \/ \E i \in 1..MaxSessions, a \in Tokens : OnChangeInsert(i, a, FALSE)
    \/ FindAllTokens(1, FALSE)
    \/ SelectTokens(1, FALSE)
    \/ BulkWrite(1, FALSE)
    \/ \E resp \in [1..Len(BatchAddresses(cycles[1])) -> {PollFull}] : FetchPriceData(1, FALSE, resp)

QuoteComputed(j) == swapJobs[j].pc = "readSupply"

\* The step in which handler j computes its quote: slot0 is read, and the
\* quote passes the check.
QuoteStep(j) == swapJobs[j].pc = "readPool" /\ swapJobs'[j].pc = "readSupply"

\* C22, as the code has it: for a fixed anchor the quote does not decrease
\* with the scaled square-root price when the reference asset is token1 of
\* the pool, and does not increase with it when the reference asset is token0.
C22_QuoteMonotoneBySide ==
    [][\A j \in 1..MaxSwapJobs : QuoteStep(j) =>
        LET a == swapJobs[j].token
            quote == swapJobs'[j].priceUsd
        IN  \A s1 \in 1..MaxSqrtPrice :
                s1 < sqrtPrice[a] =>
                    IF token0IsWeth[a]
                    THEN NumLe(quote, PriceUsd(s1, TRUE, wethPriceUsd))
                    ELSE NumLe(PriceUsd(s1, FALSE, wethPriceUsd), quote)]_vars

\* C22, as stated: for a fixed reference side and anchor, the quote for a
\* smaller scaled square-root price is strictly less.
C22_QuoteStrictlyIncreasing ==
    [][\A j \in 1..MaxSwapJobs : QuoteStep(j) =>
        LET a == swapJobs[j].token
        IN  \A s1 \in 1..MaxSqrtPrice :
                s1 < sqrtPrice[a] =>
                    NumLt(PriceUsd(s1, token0IsWeth[a], wethPriceUsd),
                          swapJobs'[j].priceUsd)]_vars

\* With the reference asset as token0, a quote that is strictly below the
\* quote of a smaller input.
C22_DecreasingReached ==
    /\ QuoteComputed(1)
    /\ token0IsWeth[swapJobs[1].token]
    /\ sqrtPrice[swapJobs[1].token] = 2 * Q96
    /\ swapJobs[1].priceUsd = PriceUsd(2 * Q96, TRUE, wethPriceUsd)
    /\ NumLt(swapJobs[1].priceUsd, PriceUsd(Q96, TRUE, wethPriceUsd))

\* C23: for one pool state, the quote in reference units with the reference
\* asset as token0 and the one with it as token1 have the product 1.
C23_SidesReciprocal ==
    [][\A j \in 1..MaxSwapJobs : QuoteStep(j) =>
        LET s == sqrtPrice[swapJobs[j].token]
        IN  NumMul(PriceInWeth(s, TRUE), PriceInWeth(s, FALSE)) = Num(1, 1)]_vars

\* C24: at a scaled square-root price of 2^ScaleBits, with equal decimals
\* and the reference asset as token0, the quote in reference units is 1 (the
\* quote in USD is the anchor).
C24_UnitRatioQuotesOne ==
    [][\A j \in 1..MaxSwapJobs :
        LET a == swapJobs[j].token
        IN  (QuoteStep(j) /\ sqrtPrice[a] = Q96 /\ token0IsWeth[a]
                /\ tokenDocs[a].decimals = DefaultDecimals)
            => /\ PriceInWeth(sqrtPrice[a], token0IsWeth[a]) = Num(1, 1)
               /\ swapJobs'[j].priceUsd = wethPriceUsd]_vars

C24_UnitRatioReached ==
    /\ QuoteComputed(1)
    /\ swapJobs[1].token = "t1"
    /\ sqrtPrice["t1"] = Q96
    /\ token0IsWeth["t1"]
    /\ tokenDocs["t1"].decimals = DefaultDecimals
    /\ swapJobs[1].priceUsd = wethPriceUsd

\* C28: the quote is the pool ratio scaled by ten to the difference between
\* the token's decimals and the reference asset's 18, times the anchor.
C28_QuoteAdjustedForDecimals ==
    [][\A j \in 1..MaxSwapJobs : QuoteStep(j) =>
        LET a == swapJobs[j].token
            scale == Num(1, 10 ^ (DefaultDecimals - tokenDocs[a].decimals))
        IN  swapJobs'[j].priceUsd =
                NumMul(NumMul(PriceInWeth(sqrtPrice[a], token0IsWeth[a]), scale),
                       wethPriceUsd)]_vars

(***************************************************************************)
(* Claims checked on SpecPollerLive.                                       *)
(***************************************************************************)
CallIssued == apiCallsThisMinute' = apiCallsThisMinute + 1

\* C13: a scheduled run that finds the call budget used up issues no
\* aggregator call and leaves nothing behind to be done later, and aggregator
\* calls are issued again and again for ever: an exhausted budget never stops
\* the poller for good.
C13_TickingContinues ==
    /\ [][(cronDue /\ ~cronDue' /\ apiCallsThisMinute >= RateLimit - 1)
            => /\ apiCallsThisMinute' = apiCallsThisMinute
               /\ callLog' = callLog
               /\ cycles' = cycles
               /\ \A c \in 1..MaxCycles : cycles'[c].pc = "idle"
               /\ tokenPrices' = tokenPrices]_vars
    /\ []<><<CallIssued>>_vars

\* The budget is used up in the first period, the run of the second period
\* issues nothing, and after the reset the run of the third issues a call.
C13_CallsAgainAfterReset ==
    /\ now = 2
    /\ callLog[0] = RateLimit - 1
    /\ callLog[1] = 0
    /\ callLog[2] >= 1
    /\ apiCallsThisMinute = callLog[2]

\* C12: every token of the Token collection is part of an aggregator call
\* again and again.
C12_EveryTokenRevisited ==
    \A a \in Addrs :
        []<>(\E c \in 1..MaxCycles :
                /\ cycles[c].pc = "fetch"
                /\ \E n \in 1..Len(BatchAddresses(cycles[c])) : BatchAddresses(cycles[c])[n] = a)

(***************************************************************************)
(* Claims checked on SpecTrackerLive.                                      *)
(***************************************************************************)
Settled ==
    /\ initPc = "done"
    /\ \A s \in 1..MaxSessions : trackQueue[s] = <<>>
    /\ events = {}

\* C19: a token that is in the store, has a resolvable pool and has no Swap
\* listener once initialization and all pending setups are over is
\* subscribed later on (unless the connection is lost meanwhile).
C19_UnsubscribedTokenRetried ==
    \A a \in Tokens :
        (Settled /\ tokenDocs[a] # NoDoc /\ swapListeners[a] = <<>>
            /\ ProbeFrom(factory[a], 1) # Null)
        ~> (swapListeners[a] # <<>> \/ ProviderDown)

ReinitAfterFailure ==
    \A s \in 1..(MaxSessions - 1) :
        (session = s /\ initPc = "reconnectWait") ~> (session = s + 1)

ReinitAfterLoss ==
    \A s \in 1..(MaxSessions - 1) :
        (session = s /\ s \in wsDropped) ~> (session = s + 1)

\* C20: after a failed initialization, and after the loss of the streaming
\* connection of a session, a further initialization begins.
C20_ReinitAfterFailureOrLoss == ReinitAfterFailure /\ ReinitAfterLoss

(***************************************************************************)
(* Claims checked on SpecResolver.                                         *)
(***************************************************************************)
AllZeroBefore(lookup, n) == \A k \in 1..(n - 1) : lookup[k] = ZeroAddress

\* C17: the resolver asks the fee tiers 500, 3000, 10000 in that order, each
\* at most once; it returns the address of the first tier that is not the
\* zero address and asks nothing after it; it returns null when all three
\* tiers give the zero address.
C17_ProbesInOrderFirstMatch ==
    LET lookup == FactoryLookup(resolver.pair)
        asked == Len(resolver.probes)
    IN  resolver.pc # "idle" =>
          /\ resolver.probes = SubSeq(<<500, 3000, 10000>>, 1, asked)
          /\ ~resolver.threw => AllZeroBefore(lookup, asked)
          /\ (resolver.pc = "probing" /\ asked > 0) => lookup[asked] = ZeroAddress
          /\ (resolver.pc = "returned" /\ ~resolver.threw) =>
                /\ resolver.result = ProbeFrom(lookup, 1)
                /\ resolver.result # ZeroAddress
                /\ resolver.result # Null => resolver.result = lookup[asked]
                /\ resolver.result = Null <=>
                        /\ asked = 3
                        /\ \A k \in 1..3 : lookup[k] = ZeroAddress

C17_ThirdTierFound ==
    /\ resolver.pc = "returned"
    /\ resolver.pair = "t1"
    /\ resolver.probes = <<500, 3000, 10000>>
    /\ resolver.result = PoolAddr("t1", 3)
    /\ factory["t1"] = <<ZeroAddress, ZeroAddress, PoolAddr("t1", 3)>>

====
